---- MODULE Spec2Model ----
(***************************************************************************)
(* Sliding-window attention masks over a (frames, height, width) token     *)
(* volume: the coordinate mapping, the window enumeration and the mask     *)
(* construction of src/src/utils/slidingWindow.ts.                         *)
(***************************************************************************)
EXTENDS Integers, Sequences, FiniteSets, TLC

VARIABLES
  volumeShape,  \* argument volumeShape: {frames, height, width}
  windowSize,   \* argument windowSize: the radius per axis
  causal,       \* argument causal: one flag per axis
  pc,           \* "ready", "called", "loop" (inside the query loop), "returned"
  call,         \* the pure function last called, its argument and its result
  position1D,   \* the query loop's counter in getSlidingWindowMask3D
  mask,         \* the mask under construction: mask[q][k]
  earlier,      \* the calls of getSlidingWindowMask3D that have returned
  ui            \* the React state of SlidingWindowViz (when it is mounted)

vars ==
  <<volumeShape, windowSize, causal, pc, call, position1D, mask, earlier, ui>>

(* ---------------------------------------------------------------- bounds *)

MaxFrames == 2

MaxHeight == 2

MaxWidth == 3

MaxRadius == 2

\* How many returned calls of getSlidingWindowMask3D are remembered.
MaxEarlierCalls == 2

\* The largest number written in a URL parameter or typed in an input.
MaxUrlNumber == 0

\* The largest token index that is clicked.
MaxSelectedToken == 1

(* ------------------------------------------------------------ data types *)

\* VolumeShape: three positive integers.
VolumeShape ==
  [frames : 1..MaxFrames, height : 1..MaxHeight, width : 1..MaxWidth]

\* Position3D used as a window radius: three non-negative integers.
WindowRadius ==
  [frame : 0..MaxRadius, height : 0..MaxRadius, width : 0..MaxRadius]

\* Causal3D: three independent booleans.
Causal3D ==
  [frame : BOOLEAN, height : BOOLEAN, width : BOOLEAN]

\* The configurations the documentation walks through.
Scenario1DCausal ==
  [shape  |-> [frames |-> 1, height |-> 1, width |-> 5],
   radius |-> [frame |-> 0, height |-> 0, width |-> 2],
   causal |-> [frame |-> FALSE, height |-> FALSE, width |-> TRUE]]

ScenarioCausalAxis ==
  [shape  |-> [frames |-> 1, height |-> 1, width |-> 8],
   radius |-> [frame |-> 0, height |-> 0, width |-> 2],
   causal |-> [frame |-> FALSE, height |-> FALSE, width |-> TRUE]]

ScenarioBoundaryClamping ==
  [shape  |-> [frames |-> 1, height |-> 1, width |-> 4],
   radius |-> [frame |-> 0, height |-> 0, width |-> 5],
   causal |-> [frame |-> FALSE, height |-> FALSE, width |-> FALSE]]

ScenarioNonCausalSymmetry ==
  [shape  |-> [frames |-> 1, height |-> 1, width |-> 8],
   radius |-> [frame |-> 0, height |-> 0, width |-> 1],
   causal |-> [frame |-> FALSE, height |-> FALSE, width |-> FALSE]]

\* python/README.md, "1D Sequence (text tokens)".
Scenario1DSequence ==
  [shape  |-> [frames |-> 1, height |-> 1, width |-> 32],
   radius |-> [frame |-> 0, height |-> 0, width |-> 3],
   causal |-> [frame |-> FALSE, height |-> FALSE, width |-> FALSE]]

Scenario2DImage ==
  [shape  |-> [frames |-> 1, height |-> 3, width |-> 3],
   radius |-> [frame |-> 0, height |-> 1, width |-> 1],
   causal |-> [frame |-> FALSE, height |-> FALSE, width |-> FALSE]]

Scenarios ==
  {Scenario1DCausal, ScenarioCausalAxis, ScenarioBoundaryClamping,
   ScenarioNonCausalSymmetry, Scenario1DSequence, Scenario2DImage}

Configurations ==
  [shape : VolumeShape, radius : WindowRadius, causal : Causal3D] \cup Scenarios

(* ------------------------------------------------------------- helpers *)

\* Math.max / Math.min on two numbers.
MathMax(a, b) == IF a >= b THEN a ELSE b

MathMin(a, b) == IF a <= b THEN a ELSE b

\* Math.floor(a / b) for b # 0.
FloorDiv(a, b) == IF b > 0 THEN a \div b ELSE (0 - a) \div (0 - b)

\* a % b in JavaScript for b # 0: the remainder has the dividend's sign.
Remainder(a, b) ==
  LET Abs(n) == IF n < 0 THEN 0 - n ELSE n
  IN  IF a < 0 THEN 0 - (Abs(a) % Abs(b)) ELSE a % Abs(b)

\* The set of the elements of a sequence.
Range(s) == {s[i] : i \in DOMAIN s}

\* totalTokens = frames * height * width.
totalTokens(shape) == shape.frames * shape.height * shape.width

\* The coordinates that are valid for a shape.
ValidCoords(shape) ==
  [frame : 0..(shape.frames - 1),
   height : 0..(shape.height - 1),
   width : 0..(shape.width - 1)]

(* ----------------------------------------------------- CoordinateMapper *)

\* Mutant: height and width extents exchanged in the decomposition.
position1DTo3D_SwappedExtents(i, shape) ==
  LET height == shape.height
      width == shape.width
      widthIdx == Remainder(i, height)
      heightIdx == Remainder(FloorDiv(i, height), width)
      frameIdx == FloorDiv(i, width * height)
  IN  [frame |-> frameIdx, height |-> heightIdx, width |-> widthIdx]

position1DTo3D(i, shape) ==
  LET height == shape.height
      width == shape.width
      widthIdx == Remainder(i, width)
      heightIdx == Remainder(FloorDiv(i, width), height)
      frameIdx == FloorDiv(i, width * height)
  IN  [frame |-> frameIdx, height |-> heightIdx, width |-> widthIdx]

\* Mutant: the row stride is the height, not the width.
position3DTo1D_HeightStride(p, shape) ==
  LET height == shape.height
      width == shape.width
  IN  p.frame * (height * width) + p.height * height + p.width

\* Mutant: column-major inside a frame (height varies fastest).
position3DTo1D_ColumnMajor(p, shape) ==
  LET height == shape.height
      width == shape.width
  IN  p.frame * (height * width) + p.width * height + p.height

position3DTo1D(p, shape) ==
  LET height == shape.height
      width == shape.width
  IN  p.frame * (height * width) + p.height * width + p.width

(* ----------------------------------------------------- WindowEnumerator *)

frameStart(p, radius) == MathMax(p.frame - radius.frame, 0)

heightStart(p, radius) == MathMax(p.height - radius.height, 0)

\* Mutant: the lower bound is off by one.
widthStart_OffByOne(p, radius) == MathMax(p.width - radius.width + 1, 0)

\* Mutant: a window that would cross the left edge starts at the reference
\* position instead of being clipped to 0.
widthStart_DropsCrossing(p, radius) ==
  IF p.width - radius.width < 0 THEN p.width ELSE p.width - radius.width

widthStart(p, radius) == MathMax(p.width - radius.width, 0)

\* Mutant: the causal upper bound excludes the reference position.
frameEnd_ExcludesSelf(p, shape, radius, c) ==
  IF c.frame
    THEN p.frame
    ELSE MathMin(p.frame + 1 + radius.frame, shape.frames)

\* Mutant: the non-causal upper bound is not clamped to the extent.
frameEnd_NoClamp(p, shape, radius, c) ==
  IF c.frame
    THEN p.frame + 1
    ELSE p.frame + 1 + radius.frame

frameEnd(p, shape, radius, c) ==
  IF c.frame
    THEN p.frame + 1
    ELSE MathMin(p.frame + 1 + radius.frame, shape.frames)

\* Mutant: the causal upper bound excludes the reference position.
heightEnd_ExcludesSelf(p, shape, radius, c) ==
  IF c.height
    THEN p.height
    ELSE MathMin(p.height + 1 + radius.height, shape.height)

heightEnd(p, shape, radius, c) ==
  IF c.height
    THEN p.height + 1
    ELSE MathMin(p.height + 1 + radius.height, shape.height)

\* Mutant: the width axis reads the height axis's causal flag.
widthEnd_WrongFlag(p, shape, radius, c) ==
  IF c.height
    THEN p.width + 1
    ELSE MathMin(p.width + 1 + radius.width, shape.width)

\* Mutant: the causal flag is ignored on the width axis.
widthEnd_IgnoresCausal(p, shape, radius, c) ==
  MathMin(p.width + 1 + radius.width, shape.width)

\* Mutant: the non-causal upper bound is clamped one short of the extent.
widthEnd_ClampShort(p, shape, radius, c) ==
  IF c.width
    THEN p.width + 1
    ELSE MathMin(p.width + 1 + radius.width, shape.width - 1)

\* Mutant: a window clipped on the left is re-centred to keep 2r+1 values.
widthEnd_Recentred(p, shape, radius, c) ==
  IF c.width
    THEN p.width + 1
    ELSE MathMin(MathMax(p.width + 1 + radius.width, 2 * radius.width + 1),
                 shape.width)

widthEnd(p, shape, radius, c) ==
  IF c.width
    THEN p.width + 1
    ELSE MathMin(p.width + 1 + radius.width, shape.width)

\* for (let w = widthStart; w < widthEnd; w++) results.push({f, h, w})
RECURSIVE WidthLoop(_, _, _, _, _)
WidthLoop(f, h, w, wEnd, results) ==
  IF w < wEnd
    THEN WidthLoop(f, h, w + 1, wEnd,
                   Append(results, [frame |-> f, height |-> h, width |-> w]))
    ELSE results

\* for (let h = heightStart; h < heightEnd; h++) { width loop }
RECURSIVE HeightLoop(_, _, _, _, _, _)
HeightLoop(f, h, hEnd, wStart, wEnd, results) ==
  IF h < hEnd
    THEN HeightLoop(f, h + 1, hEnd, wStart, wEnd,
                    WidthLoop(f, h, wStart, wEnd, results))
    ELSE results

\* for (let f = frameStart; f < frameEnd; f++) { height loop }
RECURSIVE FrameLoop(_, _, _, _, _, _, _)
FrameLoop(f, fEnd, hStart, hEnd, wStart, wEnd, results) ==
  IF f < fEnd
    THEN FrameLoop(f + 1, fEnd, hStart, hEnd, wStart, wEnd,
                   HeightLoop(f, hStart, hEnd, wStart, wEnd, results))
    ELSE results

\* Mutant: the height loop is nested inside the width loop.
getWindows3D_HeightInnermost(p, shape, radius, c) ==
  LET swapped ==
        FrameLoop(frameStart(p, radius), frameEnd(p, shape, radius, c),
                  widthStart(p, radius), widthEnd(p, shape, radius, c),
                  heightStart(p, radius), heightEnd(p, shape, radius, c),
                  <<>>)
  IN  [n \in 1..Len(swapped) |->
         [frame |-> swapped[n].frame,
          height |-> swapped[n].width,
          width |-> swapped[n].height]]

getWindows3D(p, shape, radius, c) ==
  FrameLoop(frameStart(p, radius), frameEnd(p, shape, radius, c),
            heightStart(p, radius), heightEnd(p, shape, radius, c),
            widthStart(p, radius), widthEnd(p, shape, radius, c),
            <<>>)

(* ----------------------------------------------------------- MaskBuilder *)

\* Mutant: the mask is kept between calls and re-allocated only when the
\* token count changes.
EmptyMask_KeptBetweenCalls(T) ==
  IF DOMAIN mask = 0..(T - 1)
    THEN mask
    ELSE [q \in 0..(T - 1) |-> [k \in 0..(T - 1) |-> FALSE]]

\* Array.from({length: T}, () => Array(T).fill(false))
EmptyMask(T) == [q \in 0..(T - 1) |-> [k \in 0..(T - 1) |-> FALSE]]

\* Mutant: the entry is written transposed.
SetEntry_Transposed(m, q, k) == [m EXCEPT ![k] = (q :> TRUE) @@ @]

\* mask[q][k] = true; an index past the end of the row extends the row.
SetEntry(m, q, k) == [m EXCEPT ![q] = (k :> TRUE) @@ @]

\* for (const kvPosition3D of windowPositions3D) { mask[q][kv1D] = true }
RECURSIVE MarkWindow(_, _, _, _, _)
MarkWindow(m, q, windowPositions3D, n, shape) ==
  IF n <= Len(windowPositions3D)
    THEN MarkWindow(SetEntry(m, q, position3DTo1D(windowPositions3D[n], shape)),
                    q, windowPositions3D, n + 1, shape)
    ELSE m

\* One pass of the query loop of getSlidingWindowMask3D.
QueryBody(m, q, shape, radius, c) ==
  LET position3D == position1DTo3D(q, shape)
  IN  \* windowPositions3D is the array getWindows3D returned: the call is
      \* made once and the mark loop runs over its result.
      CHOOSE marked \in
        {MarkWindow(m, q, windowPositions3D, 1, shape) :
           windowPositions3D \in
             {getWindows3D(position3D, shape, radius, c)}} : TRUE

(* ------------------------------------- the earlier, single-flag version *)

\* getWindows3D with one boolean for the three axes.
getWindows3DEarlier(p, shape, radius, flag) ==
  LET fStart == MathMax(p.frame - radius.frame, 0)
      hStart == MathMax(p.height - radius.height, 0)
      wStart == MathMax(p.width - radius.width, 0)
      fEnd == IF flag
                THEN p.frame + 1
                ELSE MathMin(p.frame + 1 + radius.frame, shape.frames)
      hEnd == IF flag
                THEN p.height + 1
                ELSE MathMin(p.height + 1 + radius.height, shape.height)
      wEnd == IF flag
                THEN p.width + 1
                ELSE MathMin(p.width + 1 + radius.width, shape.width)
  IN  FrameLoop(fStart, fEnd, hStart, hEnd, wStart, wEnd, <<>>)

\* for (let position1D = 0; position1D < totalTokens; position1D++) { ... }
RECURSIVE QueryLoopEarlier(_, _, _, _, _)
QueryLoopEarlier(m, q, shape, radius, flag) ==
  IF q < totalTokens(shape)
    THEN LET position3D == position1DTo3D(q, shape)
         IN  \* one pass: the window is computed, then its entries marked
             CHOOSE result \in
               {QueryLoopEarlier(marked, q + 1, shape, radius, flag) :
                  marked \in
                    {MarkWindow(m, q, windowPositions3D, 1, shape) :
                       windowPositions3D \in
                         {getWindows3DEarlier(position3D, shape, radius,
                                              flag)}}} : TRUE
    ELSE m

\* getSlidingWindowMask3D with one boolean for the three axes.
getSlidingWindowMask3DEarlier(shape, radius, flag) ==
  QueryLoopEarlier(EmptyMask(totalTokens(shape)), 0, shape, radius, flag)

(* ---------------------------------------------------------------- state *)

NoCall == [fn |-> "none"]

\* The component is not mounted: the functions are called directly.
NotMounted == [mounted |-> FALSE]

Init ==
  /\ \E cfg \in Configurations :
       /\ volumeShape = cfg.shape
       /\ windowSize = cfg.radius
       /\ causal = cfg.causal
  /\ pc = "ready"
  /\ call = NoCall
  /\ position1D = 0
  /\ mask = <<>>
  /\ earlier = {}
  /\ ui = NotMounted

\* A caller converts a flat index of the volume to a coordinate.
CallPosition1DTo3D ==
  /\ pc = "ready"
  /\ \E i \in 0..(totalTokens(volumeShape) - 1) :
       call' = [fn |-> "position1DTo3D", arg |-> i,
                ret |-> position1DTo3D(i, volumeShape)]
  /\ pc' = "called"
  /\ UNCHANGED <<volumeShape, windowSize, causal, position1D, mask, earlier, ui>>

\* A caller converts a valid coordinate to its flat index.
CallPosition3DTo1D ==
  /\ pc = "ready"
  /\ \E p \in ValidCoords(volumeShape) :
       call' = [fn |-> "position3DTo1D", arg |-> p,
                ret |-> position3DTo1D(p, volumeShape)]
  /\ pc' = "called"
  /\ UNCHANGED <<volumeShape, windowSize, causal, position1D, mask, earlier, ui>>

\* A caller enumerates the window of a valid coordinate.
CallGetWindows3D ==
  /\ pc = "ready"
  /\ \E p \in ValidCoords(volumeShape) :
       call' = [fn |-> "getWindows3D", arg |-> p,
                ret |-> getWindows3D(p, volumeShape, windowSize, causal)]
  /\ pc' = "called"
  /\ UNCHANGED <<volumeShape, windowSize, causal, position1D, mask, earlier, ui>>

\* The caller has consumed the value a pure function returned.
CallReturn ==
  /\ pc = "called"
  /\ pc' = "ready"
  /\ call' = NoCall
  /\ UNCHANGED <<volumeShape, windowSize, causal, position1D, mask, earlier, ui>>

\* getSlidingWindowMask3D is entered: the mask is allocated, all false.
MaskAllocate ==
  /\ pc = "ready"
  /\ pc' = "loop"
  /\ call' = [fn |-> "getSlidingWindowMask3D"]
  /\ position1D' = 0
  /\ mask' = EmptyMask(totalTokens(volumeShape))
  /\ UNCHANGED <<volumeShape, windowSize, causal, earlier, ui>>

\* One iteration of the query loop.
MaskQuery ==
  /\ pc = "loop"
  /\ position1D < totalTokens(volumeShape)
  /\ mask' = QueryBody(mask, position1D, volumeShape, windowSize, causal)
  /\ position1D' = position1D + 1
  /\ UNCHANGED <<volumeShape, windowSize, causal, pc, call, earlier, ui>>

\* The query loop ends and the mask is returned.
MaskReturn ==
  /\ pc = "loop"
  /\ ~(position1D < totalTokens(volumeShape))
  /\ pc' = "returned"
  /\ UNCHANGED <<volumeShape, windowSize, causal, call, position1D, mask,
                 earlier, ui>>

Next ==
  \/ CallPosition1DTo3D
  \/ CallPosition3DTo1D
  \/ CallGetWindows3D
  \/ CallReturn
  \/ MaskAllocate
  \/ MaskQuery
  \/ MaskReturn

Spec == Init /\ [][Next]_vars

(* ------------------------------------------------- one call, to its end *)

\* getSlidingWindowMask3D alone. The function is synchronous: once it is
\* called, the single JavaScript thread executes its steps until it returns.
NextMask ==
  \/ MaskAllocate
  \/ MaskQuery
  \/ MaskReturn

SpecMask == Init /\ [][NextMask]_vars /\ WF_vars(NextMask)

(* ------------------------------------------------------- repeated calls *)

\* One-dimensional configurations, for sequences of calls.
SequenceConfigurations ==
  {cfg \in Configurations \ Scenarios :
     /\ cfg.shape.frames = 1 /\ cfg.shape.height = 1
     /\ cfg.radius.frame = 0 /\ cfg.radius.height = 0
     /\ ~cfg.causal.frame /\ ~cfg.causal.height}

InitSequence ==
  /\ \E cfg \in SequenceConfigurations :
       /\ volumeShape = cfg.shape
       /\ windowSize = cfg.radius
       /\ causal = cfg.causal
  /\ pc = "ready"
  /\ call = NoCall
  /\ position1D = 0
  /\ mask = <<>>
  /\ earlier = {}
  /\ ui = NotMounted

\* The caller keeps the mask it was returned and calls again, with the
\* same or with another configuration; nothing else is reset.
CallAgain ==
  /\ pc = "returned"
  /\ earlier' = earlier \cup
       {[shape |-> volumeShape, radius |-> windowSize, causal |-> causal,
         mask |-> mask]}
  /\ Cardinality(earlier') <= MaxEarlierCalls
  /\ \E cfg \in SequenceConfigurations :
       /\ volumeShape' = cfg.shape
       /\ windowSize' = cfg.radius
       /\ causal' = cfg.causal
  /\ pc' = "ready"
  /\ call' = NoCall
  /\ UNCHANGED <<position1D, mask, ui>>

NextSequence ==
  \/ MaskAllocate
  \/ MaskQuery
  \/ MaskReturn
  \/ CallAgain

SpecSequence == InitSequence /\ [][NextSequence]_vars

(* ------------------------------------------------------- SlidingWindowViz *)

\* A JavaScript value that may be missing (null, undefined, an array hole,
\* an absent URL parameter) is <<>> when missing and <<v>> when it is v; an
\* array is a sequence of such values.
Missing == <<>>

Some(v) == <<v>>

Array(seq) == [n \in DOMAIN seq |-> Some(seq[n])]

\* The three axes a volume has.
AxisCount == 3

viewModeMap ==
  ( "1D Sequence" :> "text" @@ "2D Image" :> "image" @@
    "3D Video" :> "video" @@ "3D Volume" :> "volume" )

viewModeReverseMap ==
  ( "text" :> "1D Sequence" @@ "image" :> "2D Image" @@
    "video" :> "3D Video" @@ "volume" :> "3D Volume" )

viewConfigs ==
  ( "1D Sequence" :>
      [shape |-> Array(<<16>>), window |-> Array(<<2>>),
       dimLabels |-> <<"Length">>] @@
    "2D Image" :>
      [shape |-> Array(<<6, 6>>), window |-> Array(<<1, 1>>),
       dimLabels |-> <<"Height", "Width">>] @@
    "3D Video" :>
      [shape |-> Array(<<5, 5, 5>>), window |-> Array(<<1, 1, 1>>),
       dimLabels |-> <<"Frames", "Height", "Width">>] @@
    "3D Volume" :>
      [shape |-> Array(<<5, 5, 5>>), window |-> Array(<<1, 1, 1>>),
       dimLabels |-> <<"Depth", "Height", "Width">>] )

\* The numbers that are written in decimal in URLs and inputs.
UrlNumbers == (0 - 1)..MaxUrlNumber

NumberTokens == {ToString(n) : n \in UrlNumbers}

\* The largest number of viewConfigs.
LargestConfigNumber == 16

\* The numbers the component reads and writes in decimal.
Decimals == UrlNumbers \cup 0..LargestConfigNumber

\* Number(text) for a decimal integer or the empty string.
Number(text) ==
  IF text = "" THEN 0 ELSE CHOOSE n \in Decimals : ToString(n) = text

Optional(values) == {Missing} \cup {Some(v) : v \in values}

\* window.location.search: each parameter absent or present. A list
\* parameter is given by its comma-separated parts, what split(',') returns;
\* the list parameters that are present have the same number of parts.
UrlQueries ==
  UNION {
    [mode : Optional(DOMAIN viewModeReverseMap \cup {"other"}),
     shape : Optional([1..n -> NumberTokens]),
     window : Optional([1..n -> NumberTokens]),
     causal : Optional([1..n -> {"0", "1"}]),
     token : Optional(NumberTokens)] : n \in 1..AxisCount }

getInitialState(urlParams) ==
  LET modeParam == urlParams.mode
      mode == IF modeParam # Missing /\ modeParam[1] \in DOMAIN viewModeReverseMap
                THEN viewModeReverseMap[modeParam[1]]
                ELSE "3D Video"
      config == viewConfigs[mode]
      shapeParam ==
        IF urlParams.shape # Missing
          THEN [n \in DOMAIN urlParams.shape[1] |->
                  Some(Number(urlParams.shape[1][n]))]
          ELSE config.shape
      windowParam ==
        IF urlParams.window # Missing
          THEN [n \in DOMAIN urlParams.window[1] |->
                  Some(Number(urlParams.window[1][n]))]
          ELSE config.window
      causalParam ==
        IF urlParams.causal # Missing
          THEN [n \in DOMAIN urlParams.causal[1] |->
                  Some(urlParams.causal[1][n] = "1")]
          ELSE [n \in DOMAIN shapeParam |-> Some(FALSE)]
  IN  [viewMode |-> mode,
       selectedToken |->
         IF urlParams.token # Missing /\ urlParams.token[1] # ""
           THEN Some(Number(urlParams.token[1]))
           ELSE Missing,
       shape |-> shapeParam,
       windowSize |-> windowParam,
       causal |-> causalParam]

\* Destructuring with a default: [d0 = dflt, ...] = array.
ElementOr(array, n, dflt) ==
  IF n <= Len(array) /\ array[n] # Missing THEN array[n][1] ELSE dflt

\* Mutant: the missing axes are added after the given ones.
ToThreeAxes_PadsTrailing(array, pad) ==
  IF Len(array) = 1 THEN <<array[1], Some(pad), Some(pad)>>
  ELSE IF Len(array) = 2 THEN array \o <<Some(pad)>>
  ELSE array

\* length === 1 ? [pad, pad, a[0]] : length === 2 ? [pad, ...a] : a
ToThreeAxes(array, pad) ==
  IF Len(array) = 1 THEN <<Some(pad), Some(pad), array[1]>>
  ELSE IF Len(array) = 2 THEN <<Some(pad)>> \o array
  ELSE array

actualVolumeShape(shape) ==
  LET parts == ToThreeAxes(shape, 1)
  IN  [frames |-> ElementOr(parts, 1, 1),
       height |-> ElementOr(parts, 2, 1),
       width |-> ElementOr(parts, 3, 1)]

actualWindowSize(window) ==
  LET parts == ToThreeAxes(window, 0)
  IN  [frame |-> ElementOr(parts, 1, 0),
       height |-> ElementOr(parts, 2, 0),
       width |-> ElementOr(parts, 3, 0)]

actualCausal(flags) ==
  LET parts == ToThreeAxes(flags, FALSE)
  IN  [frame |-> ElementOr(parts, 1, FALSE),
       height |-> ElementOr(parts, 2, FALSE),
       width |-> ElementOr(parts, 3, FALSE)]

\* const copy = [...array]; copy[i] = v  (i counted from 0): an index past
\* the end leaves the elements in between missing.
ArraySet(array, i, v) ==
  [n \in 1..MathMax(Len(array), i + 1) |->
     IF n = i + 1 THEN Some(v)
     ELSE IF n <= Len(array) THEN array[n]
     ELSE Missing]

\* Row q of the mask that getSlidingWindowMask3D returns: pass q of its
\* query loop, which writes row q and no other row.
attentionMaskRow(q, shape, radius, c) ==
  LET T == totalTokens(shape)
      allocated == (q :> [k \in 0..(T - 1) |-> FALSE])
  IN  QueryBody(allocated, q, shape, radius, c)[q]

\* The attendableTokens memo's function: the indices i < totalTokens with
\* attentionMask[selectedToken]?.[i] true. The mask is the one for the
\* arguments (shape, radius, c); a row that does not exist gives nothing.
attendableTokens(selectedToken, shape, radius, c) ==
  IF selectedToken = Missing
    THEN {}
    ELSE LET T == totalTokens(shape)
             q == selectedToken[1]
         IN  IF q \in 0..(T - 1)
               THEN LET row == attentionMaskRow(q, shape, radius, c)
                    IN  {i \in 0..(T - 1) : row[i]}
               ELSE {}

\* useMemo(..., [shape]): recomputed when the shape state has changed.
memoVolumeShape(u) ==
  IF u.shape # ui.shape THEN actualVolumeShape(u.shape) ELSE volumeShape

\* useMemo(..., [windowSize])
memoWindowSize(u) ==
  IF u.windowSize # ui.windowSize
    THEN actualWindowSize(u.windowSize)
    ELSE windowSize

\* Mutant: the memo has no dependency and is never recomputed.
memoCausal_NoDependency(u) == causal

\* useMemo(..., [causal])
memoCausal(u) ==
  IF u.causal # ui.causal THEN actualCausal(u.causal) ELSE causal

\* useMemo(..., [selectedToken, attentionMask, totalTokens]); attentionMask
\* is itself recomputed when one of its three arguments has changed.
memoAttendableTokens(u, shape, radius, c) ==
  IF \/ u.selectedToken # ui.selectedToken
     \/ shape # volumeShape \/ radius # windowSize \/ c # causal
    THEN attendableTokens(u.selectedToken, shape, radius, c)
    ELSE ui.attendableTokens

\* The component renders with the React state u: the memos whose
\* dependencies changed are recomputed, the attentionMask memo by calling
\* getSlidingWindowMask3D with the three derived arguments.
Render(u) ==
  /\ volumeShape' = memoVolumeShape(u)
  /\ windowSize' = memoWindowSize(u)
  /\ causal' = memoCausal(u)
  /\ ui' = [u EXCEPT !.attendableTokens =
              memoAttendableTokens(u, volumeShape', windowSize', causal')]
  /\ UNCHANGED <<pc, call, position1D, mask, earlier>>

\* The component is mounted on a page with some query string; on the first
\* render every memo is computed.
FirstRender(initialState) ==
  [mounted |-> TRUE,
   viewMode |-> initialState.viewMode,
   selectedToken |-> initialState.selectedToken,
   shape |-> initialState.shape,
   windowSize |-> initialState.windowSize,
   causal |-> initialState.causal,
   attendableTokens |->
     attendableTokens(initialState.selectedToken,
                      actualVolumeShape(initialState.shape),
                      actualWindowSize(initialState.windowSize),
                      actualCausal(initialState.causal))]

InitViz ==
  /\ \E urlParams \in UrlQueries :
       ui = FirstRender(getInitialState(urlParams))
  /\ volumeShape = actualVolumeShape(ui.shape)
  /\ windowSize = actualWindowSize(ui.windowSize)
  /\ causal = actualCausal(ui.causal)
  /\ pc = "render"
  /\ call = [fn |-> "getSlidingWindowMask3D"]
  /\ position1D = 0
  /\ mask = <<>>
  /\ earlier = {}

\* What can be typed in a number input: a decimal integer or nothing.
InputValues == NumberTokens \cup {""}

\* The input fields shown: one per dimension label of the view mode.
FieldIndices == 0..(Len(viewConfigs[ui.viewMode].dimLabels) - 1)

\* onChange of a shape input.
ShapeChange ==
  /\ ui.mounted
  /\ \E i \in FieldIndices, value \in InputValues :
       Render([ui EXCEPT !.shape = ArraySet(@, i, MathMax(1, Number(value)))])

\* onChange of a window input.
WindowChange ==
  /\ ui.mounted
  /\ \E i \in FieldIndices, value \in InputValues :
       Render([ui EXCEPT
                 !.windowSize = ArraySet(@, i, MathMax(0, Number(value)))])

\* onChange of a causal checkbox.
CausalChange ==
  /\ ui.mounted
  /\ \E i \in FieldIndices, checked \in BOOLEAN :
       Render([ui EXCEPT !.causal = ArraySet(@, i, checked)])

\* onClick of an entry of the mode dropdown.
ModeSwitch ==
  /\ ui.mounted
  /\ \E mode \in DOMAIN viewConfigs :
       Render([ui EXCEPT
                 !.viewMode = mode,
                 !.selectedToken = Missing,
                 !.shape = viewConfigs[mode].shape,
                 !.windowSize = viewConfigs[mode].window,
                 !.causal = [n \in DOMAIN viewConfigs[mode].shape |->
                               Some(FALSE)]])

\* onClick of the Clear button, shown while a token is selected.
ClearSelection ==
  /\ ui.mounted
  /\ ui.selectedToken # Missing
  /\ Render([ui EXCEPT !.selectedToken = Missing])

\* Array.from({length: n}): no element when n is not positive.
IndicesBelow(n) == 0..(n - 1)

\* The token cells the grid of the view mode draws (tokenOffset + i).
GridTokens ==
  LET frames == volumeShape.frames
      height == volumeShape.height
      width == volumeShape.width
  IN  IF ui.viewMode = "1D Sequence" THEN IndicesBelow(1 * width)
      ELSE IF ui.viewMode = "2D Image" THEN IndicesBelow(height * width)
      ELSE {frameIdx * height * width + i :
              frameIdx \in IndicesBelow(frames),
              i \in IndicesBelow(height * width)}

\* The rows of the mask canvas: row >= 0 && row < displaySize.
MaskRows == IndicesBelow(totalTokens(volumeShape))

\* onClick of a token cell, or handleClick on a row of the mask canvas.
SelectToken ==
  /\ ui.mounted
  /\ \E tokenIndex \in (GridTokens \cup MaskRows) \cap 0..MaxSelectedToken :
       Render([ui EXCEPT !.selectedToken = Some(tokenIndex)])

\* array.join(','), as the parts that split(',') gives back: a missing
\* element is written as the empty string.
JoinParts(array) ==
  [n \in DOMAIN array |->
     IF array[n] = Missing THEN "" ELSE ToString(array[n][1])]

\* handleShare: the query string of the URL that is copied.
handleShare(u) ==
  [mode |-> Some(viewModeMap[u.viewMode]),
   shape |-> Some(JoinParts(u.shape)),
   window |-> Some(JoinParts(u.windowSize)),
   causal |-> Some([n \in DOMAIN u.causal |->
                      IF u.causal[n] = Missing THEN ""
                      ELSE IF u.causal[n][1] THEN "1" ELSE "0"]),
   token |-> IF u.selectedToken # Missing
               THEN Some(ToString(u.selectedToken[1]))
               ELSE Missing]

\* The Share button is clicked and the copied URL is opened: the component
\* is mounted again, on that URL.
OpenSharedLink ==
  /\ ui.mounted
  /\ ui' = FirstRender(getInitialState(handleShare(ui)))
  /\ volumeShape' = actualVolumeShape(ui'.shape)
  /\ windowSize' = actualWindowSize(ui'.windowSize)
  /\ causal' = actualCausal(ui'.causal)
  /\ UNCHANGED <<pc, call, position1D, mask, earlier>>

NextViz ==
  \/ SelectToken
  \/ OpenSharedLink
  \/ ShapeChange
  \/ WindowChange
  \/ CausalChange
  \/ ModeSwitch
  \/ ClearSelection

SpecViz == InitViz /\ [][NextViz]_vars

(* ------------------------------------------------------------- claims *)

Tokens == 0..(totalTokens(volumeShape) - 1)

\* The coordinate of a flat index in the current volume.
Coord(i) == position1DTo3D(i, volumeShape)

\* C1: the returned mask has mask[q][k] true exactly when the coordinate of
\* k is an element of the window of the coordinate of q, for all q, k in
\* [0, T); the mask has no entry outside [0, T) x [0, T).
C1_MaskIsWindowMembership ==
  pc = "returned" =>
    /\ DOMAIN mask = Tokens
    /\ \A q \in Tokens :
         LET window == Range(getWindows3D(Coord(q), volumeShape,
                                          windowSize, causal))
         IN  /\ DOMAIN mask[q] = Tokens
             /\ \A k \in Tokens : mask[q][k] <=> Coord(k) \in window

C1_Witness ==
  /\ pc = "returned"
  /\ volumeShape.frames > 1 /\ volumeShape.height > 1 /\ volumeShape.width > 1
  /\ causal.height /\ ~causal.width
  /\ \E q, k \in Tokens : q # k /\ mask[q][k] /\ ~mask[k][q]

\* The per-axis range of the window as the specification states it.
AxisLower(coord, radius) == MathMax(coord - radius, 0)

AxisUpper(coord, radius, extent, isCausal) ==
  IF isCausal THEN coord + 1 ELSE MathMin(coord + 1 + radius, extent)

AxisRange(coord, radius, extent, isCausal) ==
  AxisLower(coord, radius)..(AxisUpper(coord, radius, extent, isCausal) - 1)

WindowProduct(p, shape, radius, c) ==
  [frame : AxisRange(p.frame, radius.frame, shape.frames, c.frame),
   height : AxisRange(p.height, radius.height, shape.height, c.height),
   width : AxisRange(p.width, radius.width, shape.width, c.width)]

\* C2: getWindows3D of a valid coordinate returns exactly the Cartesian
\* product of the three per-axis ranges [max(c - r, 0), end), end = c + 1 on
\* a causal axis and min(c + 1 + r, extent) otherwise, each axis's range
\* being computed from that axis's values alone.
C2_WindowIsAxisProduct ==
  call.fn = "getWindows3D" =>
    LET product == WindowProduct(call.arg, volumeShape, windowSize, causal)
    IN  /\ Range(call.ret) = product
        /\ Len(call.ret) = Cardinality(product)

C2_Witness ==
  /\ call.fn = "getWindows3D"
  /\ causal.frame /\ ~causal.height /\ causal.width
  /\ windowSize.frame > 0 /\ windowSize.height > 0 /\ windowSize.width > 0
  /\ call.arg.frame > 0 /\ call.arg.height > 0 /\ call.arg.width > 0
  /\ Len(call.ret) > 1

\* C3: converting an index in [0, T) to a coordinate and back gives the
\* index again.
C3_RoundTrip ==
  call.fn = "position1DTo3D" =>
    position3DTo1D(call.ret, volumeShape) = call.arg

C3_Witness ==
  /\ call.fn = "position1DTo3D"
  /\ volumeShape.height # volumeShape.width
  /\ call.ret.frame > 0 /\ call.ret.height > 0 /\ call.ret.width > 0

\* C4: the two conversions are mutual inverses: the coordinate of an index
\* in [0, T) is valid, the index of a valid coordinate lies in [0, T), and
\* converting that index back gives the coordinate.
C4_MutualInverses ==
  /\ call.fn = "position1DTo3D" => call.ret \in ValidCoords(volumeShape)
  /\ call.fn = "position3DTo1D" =>
       /\ call.ret \in Tokens
       /\ position1DTo3D(call.ret, volumeShape) = call.arg

C4_Witness ==
  /\ call.fn = "position3DTo1D"
  /\ volumeShape.height # volumeShape.width
  /\ call.arg.frame > 0 /\ call.arg.height > 0 /\ call.arg.width > 0

\* (frame, height, width) of a is lexicographically smaller than that of b.
LexLess(a, b) ==
  \/ a.frame < b.frame
  \/ a.frame = b.frame /\ a.height < b.height
  \/ a.frame = b.frame /\ a.height = b.height /\ a.width < b.width

\* C5: the flat index is row-major, width innermost and frame outermost:
\* indices of valid coordinates compare as the coordinates compare
\* lexicographically, and a step of 1 in width, height, frame changes the
\* index by 1, W, H*W.
C5_RowMajor ==
  call.fn = "position3DTo1D" =>
    LET a == call.arg
        H == volumeShape.height
        W == volumeShape.width
    IN  /\ \A b \in ValidCoords(volumeShape) :
             (call.ret < position3DTo1D(b, volumeShape)) <=> LexLess(a, b)
        /\ position3DTo1D([a EXCEPT !.width = @ + 1], volumeShape)
             = call.ret + 1
        /\ position3DTo1D([a EXCEPT !.height = @ + 1], volumeShape)
             = call.ret + W
        /\ position3DTo1D([a EXCEPT !.frame = @ + 1], volumeShape)
             = call.ret + H * W

C5_Witness ==
  /\ call.fn = "position3DTo1D"
  /\ volumeShape.frames > 1 /\ volumeShape.height > 1 /\ volumeShape.width > 2
  /\ \E b \in ValidCoords(volumeShape) :
       /\ b.width > call.arg.width /\ b.height < call.arg.height
       /\ position3DTo1D(b, volumeShape) < call.ret

\* The configuration the mask is being built for.
Configuration ==
  [shape |-> volumeShape, radius |-> windowSize, causal |-> causal]

\* C6: on an axis whose causal flag is set, a token attends to no token
\* that lies strictly after it on that axis, whatever the other axes'
\* radii and flags; for shape (1,1,8), radius (0,0,2), causal width,
\* mask[3][5] is false and mask[3][1] is true.
C6_CausalAxisSeesNoFuture ==
  pc = "returned" =>
    /\ \A q, k \in Tokens :
         /\ causal.frame /\ Coord(k).frame > Coord(q).frame => ~mask[q][k]
         /\ causal.height /\ Coord(k).height > Coord(q).height => ~mask[q][k]
         /\ causal.width /\ Coord(k).width > Coord(q).width => ~mask[q][k]
    /\ Configuration = ScenarioCausalAxis =>
         mask[3][5] = FALSE /\ mask[3][1] = TRUE

C6_Witness ==
  /\ pc = "returned"
  /\ causal.width /\ ~causal.height /\ ~causal.frame
  /\ windowSize.width > 0 /\ windowSize.height > 0 /\ windowSize.frame > 0
  /\ \E q, k \in Tokens :
       /\ Coord(k).width = Coord(q).width + 1
       /\ Coord(k).height = Coord(q).height + 1
       /\ Coord(k).frame = Coord(q).frame + 1
       /\ ~mask[q][k] /\ mask[k][q]

\* A row of the mask that is true exactly at the indices in S.
Row(T, S) == [k \in 0..(T - 1) |-> k \in S]

\* C7 as stated: for shape (1,1,5), radius (0,0,2) and causal width only,
\* the mask has mask[0] = [T,F,F,F,F], mask[4] = [T,T,T,T,T] and
\* mask[2] = [T,T,T,F,F].
C7_Scenario1DCausalRows_AsStated ==
  pc = "returned" /\ Configuration = Scenario1DCausal =>
    /\ mask[0] = Row(5, {0})
    /\ mask[4] = Row(5, {0, 1, 2, 3, 4})
    /\ mask[2] = Row(5, {0, 1, 2})

\* C7 amended: for shape (1,1,5), radius (0,0,2) and causal width only, the
\* mask has mask[0] = [T,F,F,F,F], mask[4] = [F,F,T,T,T] (token 4 reaches
\* back 2 positions, to tokens 2..4) and mask[2] = [T,T,T,F,F].
C7_Scenario1DCausalRows ==
  pc = "returned" /\ Configuration = Scenario1DCausal =>
    /\ mask[0] = Row(5, {0})
    /\ mask[4] = Row(5, {2, 3, 4})
    /\ mask[2] = Row(5, {0, 1, 2})

C7_Witness ==
  /\ pc = "returned"
  /\ Configuration = Scenario1DCausal
  /\ mask[4][2] /\ ~mask[4][1]

\* C8: the window of a valid coordinate is non-empty and contains the
\* coordinate itself, for every radius and every combination of flags.
C8_WindowContainsSelf ==
  call.fn = "getWindows3D" =>
    /\ Len(call.ret) >= 1
    /\ \E n \in 1..Len(call.ret) : call.ret[n] = call.arg

C8_Witness ==
  /\ call.fn = "getWindows3D"
  /\ causal.frame /\ causal.height /\ causal.width
  /\ windowSize.frame = 0 /\ windowSize.height > 0
  /\ call.arg.frame > 0 /\ call.arg.height > 0
  /\ call.arg \in Range(call.ret)

\* C9: every token attends to itself: mask[i][i] is true for every i in
\* [0, T) of the returned mask.
C9_MaskDiagonal ==
  pc = "returned" => \A i \in Tokens : mask[i][i] = TRUE

C9_Witness ==
  /\ pc = "returned"
  /\ totalTokens(volumeShape) > 4
  /\ causal.height
  /\ \A i \in Tokens : mask[i][i]
  /\ \E q, k \in Tokens : ~mask[q][k]

\* C10: every coordinate getWindows3D returns is valid for the shape and
\* none is returned twice, also when a radius is at least the axis extent;
\* hence every key index the mask construction writes lies in [0, T).
C10_WindowInRangeNoDuplicates ==
  /\ call.fn = "getWindows3D" =>
       /\ \A n \in 1..Len(call.ret) : call.ret[n] \in ValidCoords(volumeShape)
       /\ \A n, m \in 1..Len(call.ret) : n # m => call.ret[n] # call.ret[m]
  /\ pc \in {"loop", "returned"} =>
       \A q \in DOMAIN mask : DOMAIN mask[q] = Tokens

C10_Witness ==
  /\ call.fn = "getWindows3D"
  /\ volumeShape.frames > 1 /\ volumeShape.height > 1 /\ volumeShape.width > 1
  /\ windowSize.frame >= volumeShape.frames
  /\ windowSize.height >= volumeShape.height
  /\ windowSize.width >= volumeShape.width
  /\ ~causal.frame /\ ~causal.height /\ ~causal.width
  /\ Len(call.ret) = totalTokens(volumeShape)

\* C11: getWindows3D enumerates frame outermost, then height, then width:
\* the returned sequence is strictly increasing in lexicographic (frame,
\* height, width) order, so each coordinate is yielded once and the flat
\* indices are strictly increasing.
C11_WindowInLexOrder ==
  call.fn = "getWindows3D" =>
    \A n \in 1..(Len(call.ret) - 1) :
      /\ LexLess(call.ret[n], call.ret[n + 1])
      /\ position3DTo1D(call.ret[n], volumeShape)
           < position3DTo1D(call.ret[n + 1], volumeShape)

C11_Witness ==
  /\ call.fn = "getWindows3D"
  /\ Len(call.ret) >= 8
  /\ \E n \in 1..(Len(call.ret) - 1) :
       /\ call.ret[n + 1].height > call.ret[n].height
       /\ call.ret[n + 1].width < call.ret[n].width
  /\ \E n \in 1..(Len(call.ret) - 1) :
       call.ret[n + 1].frame > call.ret[n].frame

\* C12: two tokens that see each other have equal coordinates on every
\* causal axis: mask[q][k] and mask[k][q] both true implies that q and k
\* do not differ on an axis whose causal flag is set.
C12_MutualOnlyOffCausalAxes ==
  pc = "returned" =>
    \A q, k \in Tokens :
      mask[q][k] /\ mask[k][q] =>
        /\ causal.frame => Coord(q).frame = Coord(k).frame
        /\ causal.height => Coord(q).height = Coord(k).height
        /\ causal.width => Coord(q).width = Coord(k).width

C12_Witness ==
  /\ pc = "returned"
  /\ causal.width /\ ~causal.height
  /\ windowSize.width > 0 /\ windowSize.height > 0
  /\ \E q, k \in Tokens : q # k /\ mask[q][k] /\ mask[k][q]
  /\ \E q, k \in Tokens : mask[q][k] /\ ~mask[k][q]

NonCausal == ~causal.frame /\ ~causal.height /\ ~causal.width

\* C13: with all three causal flags false the mask is symmetric,
\* mask[q][k] = mask[k][q] for all q, k in [0, T); for shape (1,1,8),
\* radius (0,0,1), mask[3][4] and mask[4][3] are both true.
C13_NonCausalSymmetric ==
  pc = "returned" /\ NonCausal =>
    /\ \A q, k \in Tokens : mask[q][k] = mask[k][q]
    /\ Configuration = ScenarioNonCausalSymmetry =>
         mask[3][4] = TRUE /\ mask[4][3] = TRUE

C13_Witness ==
  /\ pc = "returned"
  /\ Configuration = ScenarioNonCausalSymmetry
  /\ mask[3][4] /\ mask[4][3] /\ ~mask[3][5] /\ ~mask[5][3]

\* C14: with every axis non-causal and every radius at least its axis's
\* extent the mask is fully dense; for shape (1,1,4), radius (0,0,5) every
\* mask[q][k], q, k in [0, 4), is true.
C14_LargeRadiusDense ==
  pc = "returned" /\ NonCausal =>
    /\ ( /\ windowSize.frame >= volumeShape.frames
         /\ windowSize.height >= volumeShape.height
         /\ windowSize.width >= volumeShape.width )
         => \A q, k \in Tokens : mask[q][k] = TRUE
    /\ Configuration = ScenarioBoundaryClamping =>
         \A q, k \in 0..3 : mask[q][k] = TRUE

C14_Witness ==
  /\ pc = "returned"
  /\ NonCausal
  /\ volumeShape.frames > 1 /\ volumeShape.height > 1 /\ volumeShape.width > 1
  /\ windowSize.frame >= volumeShape.frames
  /\ windowSize.height >= volumeShape.height
  /\ windowSize.width >= volumeShape.width
  /\ mask[0][totalTokens(volumeShape) - 1]

\* The number of true entries of row q of the mask.
RowCount(q) == Cardinality({k \in DOMAIN mask[q] : mask[q][k]})

WindowUnder(c) == getWindows3D(call.arg, volumeShape, windowSize, c)

\* C19: radius 0 on an axis collapses that axis's range to the reference
\* coordinate's value whatever that axis's causal flag: every returned
\* coordinate has that value on the axis, and the result with the axis's
\* flag inverted is the same sequence.
C19_ZeroRadiusCollapsesAxis ==
  call.fn = "getWindows3D" =>
    /\ windowSize.frame = 0 =>
         /\ \A n \in 1..Len(call.ret) : call.ret[n].frame = call.arg.frame
         /\ call.ret = WindowUnder([causal EXCEPT !.frame = ~@])
    /\ windowSize.height = 0 =>
         /\ \A n \in 1..Len(call.ret) : call.ret[n].height = call.arg.height
         /\ call.ret = WindowUnder([causal EXCEPT !.height = ~@])
    /\ windowSize.width = 0 =>
         /\ \A n \in 1..Len(call.ret) : call.ret[n].width = call.arg.width
         /\ call.ret = WindowUnder([causal EXCEPT !.width = ~@])

C19_Witness ==
  /\ call.fn = "getWindows3D"
  /\ windowSize.height = 0 /\ windowSize.width > 0 /\ windowSize.frame > 0
  /\ volumeShape.height > 1 /\ call.arg.height = 0
  /\ causal.height
  /\ Len(call.ret) > 2

\* The values an axis takes in a sequence of coordinates.
FrameValues(win) == {win[n].frame : n \in DOMAIN win}

HeightValues(win) == {win[n].height : n \in DOMAIN win}

WidthValues(win) == {win[n].width : n \in DOMAIN win}

\* The clipped window width on a non-causal axis, as the claim states it.
ClippedCount(values, coord, radius, extent) ==
  /\ Cardinality(values)
       = MathMin(coord + radius, extent - 1) - MathMax(coord - radius, 0) + 1
  /\ Cardinality(values) <= 2 * radius + 1
  /\ Cardinality(values) = 2 * radius + 1
       <=> (radius <= coord /\ coord <= extent - 1 - radius)

\* C20: on a non-causal axis of extent E with radius r the window of a
\* coordinate c holds min(c + r, E - 1) - max(c - r, 0) + 1 distinct values
\* of that axis: at most 2r+1, and exactly 2r+1 iff r <= c <= E - 1 - r
\* (the window is clipped at the boundary, not re-centred).
C20_ClippedNotRecentred ==
  call.fn = "getWindows3D" =>
    /\ ~causal.frame =>
         ClippedCount(FrameValues(call.ret), call.arg.frame,
                      windowSize.frame, volumeShape.frames)
    /\ ~causal.height =>
         ClippedCount(HeightValues(call.ret), call.arg.height,
                      windowSize.height, volumeShape.height)
    /\ ~causal.width =>
         ClippedCount(WidthValues(call.ret), call.arg.width,
                      windowSize.width, volumeShape.width)

C20_Witness ==
  /\ call.fn = "getWindows3D"
  /\ ~causal.width
  /\ windowSize.width = 1 /\ volumeShape.width = 3
  /\ call.arg.width = 0
  /\ Cardinality(WidthValues(call.ret)) = 2

\* C18: two calls of getSlidingWindowMask3D with the same shape, radius
\* and causal flags return element-wise identical masks, whatever calls on
\* other configurations were made in between: the result depends on the
\* three arguments only, not on what an earlier call left behind.
C18_SameArgumentsSameMask ==
  pc = "returned" =>
    \A e \in earlier :
      (e.shape = volumeShape /\ e.radius = windowSize /\ e.causal = causal)
        => e.mask = mask

C18_Witness ==
  /\ pc = "returned"
  /\ volumeShape.width > 1
  /\ \E e \in earlier :
       e.shape = volumeShape /\ e.radius = windowSize /\ e.causal = causal
  /\ \E e \in earlier :
       e.shape = volumeShape /\ e.mask # mask

\* C16: a shape with an axis <= 0 never reaches the core: in every state of
\* the mounted component (after any query string, shape edits and mode
\* switches) getSlidingWindowMask3D is called with frames, height and width
\* all >= 1. The query string ?shape=0 refutes it: getInitialState maps
\* Number over the parts and nothing checks them.
C16_ShapeAxesPositive ==
  (ui.mounted /\ call.fn = "getSlidingWindowMask3D")
    => /\ volumeShape.frames >= 1
       /\ volumeShape.height >= 1
       /\ volumeShape.width >= 1

\* C17: a negative radius never reaches the core: in every state of the
\* mounted component (after any query string, window edits and mode
\* switches) getSlidingWindowMask3D is called with a radius >= 0 on every
\* axis. The query string ?window=-1 refutes it.
C17_RadiusNonNegative ==
  (ui.mounted /\ call.fn = "getSlidingWindowMask3D")
    => /\ windowSize.frame >= 0
       /\ windowSize.height >= 0
       /\ windowSize.width >= 0

\* C21: for shape (1,3,3), radius (0,1,1) and no causal axis, row 4 of the
\* mask (the centre token, coordinate (0,1,1)) has exactly 9 true entries
\* and row 0 (the corner, coordinate (0,0,0)) has exactly 4, at the indices
\* 0, 1, 3 and 4.
C21_Scenario2DImageRows ==
  pc = "returned" /\ Configuration = Scenario2DImage =>
    /\ Coord(4) = [frame |-> 0, height |-> 1, width |-> 1]
    /\ Coord(0) = [frame |-> 0, height |-> 0, width |-> 0]
    /\ RowCount(4) = 9
    /\ RowCount(0) = 4
    /\ mask[0] = Row(9, {0, 1, 3, 4})

C21_Witness ==
  /\ pc = "returned"
  /\ Configuration = Scenario2DImage
  /\ mask[4][8]
  /\ mask[0][4] /\ ~mask[0][2]

\* The mask is a square relation: T rows of T boolean entries each.
SquareMask ==
  /\ DOMAIN mask = Tokens
  /\ \A q \in Tokens :
       /\ DOMAIN mask[q] = Tokens
       /\ \A k \in Tokens : mask[q][k] \in BOOLEAN

\* C22: for every valid shape, radius >= 0 and flags, getSlidingWindowMask3D
\* runs to completion (the query loop counts up to T and stops, each window
\* enumeration inside it being finite) and the mask it returns is square:
\* exactly T rows of exactly T boolean entries, T = frames * height * width.
C22_MaskCompletesSquare ==
  <>(/\ pc = "returned"
     /\ position1D = totalTokens(volumeShape)
     /\ SquareMask)

C22_Witness ==
  /\ pc = "returned"
  /\ totalTokens(volumeShape) = MaxFrames * MaxHeight * MaxWidth
  /\ position1D = totalTokens(volumeShape)
  /\ SquareMask
  /\ \E q, k \in Tokens : ~mask[q][k]

\* C23: the rendered mask is never stale. After any sequence of shape,
\* window and causal edits, mode switches, token selections and clears,
\* the arguments the displayed mask was computed with are the ones derived
\* from the current shape, window and causal state, and the attendable set
\* is {k in [0, T) : mask[selectedToken][k]} for that mask: empty when no
\* token is selected (or when the mask has no row selectedToken).
C23_MaskNeverStale ==
  ui.mounted =>
    /\ volumeShape = actualVolumeShape(ui.shape)
    /\ windowSize = actualWindowSize(ui.windowSize)
    /\ causal = actualCausal(ui.causal)
    /\ ui.attendableTokens =
         IF ui.selectedToken = Missing
           THEN {}
           ELSE {k \in IndicesBelow(totalTokens(actualVolumeShape(ui.shape))) :
                   /\ ui.selectedToken[1] \in
                        IndicesBelow(totalTokens(actualVolumeShape(ui.shape)))
                   /\ attentionMaskRow(ui.selectedToken[1],
                                       actualVolumeShape(ui.shape),
                                       actualWindowSize(ui.windowSize),
                                       actualCausal(ui.causal))[k]}

C23_Witness ==
  /\ ui.mounted
  /\ ui.viewMode = "1D Sequence"
  /\ ui.shape = Array(<<16>>)
  /\ causal.width
  /\ ui.selectedToken = Some(1)
  /\ ui.attendableTokens = {0, 1}

\* C24: after any sequence of UI actions (selecting a token in the grid or
\* on a mask row, clearing, editing shape, window or causal, switching
\* mode), selectedToken is null or an index in [0, T), T the token count of
\* the current shape. Selecting token 1 of 16 and then setting Length to 1
\* refutes it: the shape edit leaves selectedToken as it is.
C24_SelectedTokenInRange ==
  ui.mounted =>
    \/ ui.selectedToken = Missing
    \/ ui.selectedToken[1] \in
         IndicesBelow(totalTokens(actualVolumeShape(ui.shape)))

\* The three flags are equal.
UniformCausal == causal.frame = causal.height /\ causal.height = causal.width

\* C25: the per-axis version agrees with the earlier single-flag version.
\* For every valid coordinate, shape and radius, getWindows3D with the
\* three flags all true (all false) returns the same sequence of
\* coordinates as the earlier getWindows3D with causal = true (false), and
\* getSlidingWindowMask3D returns the same mask as the earlier one.
C25_AgreesWithSingleFlagVersion ==
  UniformCausal =>
    /\ call.fn = "getWindows3D" /\ pc = "called" =>
         call.ret = getWindows3DEarlier(call.arg, volumeShape, windowSize,
                                        causal.frame)
    /\ pc = "returned" =>
         mask = getSlidingWindowMask3DEarlier(volumeShape, windowSize,
                                              causal.frame)

C25_Witness ==
  /\ pc = "returned"
  /\ causal.frame /\ causal.height /\ causal.width
  /\ volumeShape.frames > 1 /\ volumeShape.height > 1 /\ volumeShape.width > 1
  /\ windowSize.frame > 0 /\ windowSize.height > 0 /\ windowSize.width > 0
  /\ mask = getSlidingWindowMask3DEarlier(volumeShape, windowSize, TRUE)
  /\ mask # getSlidingWindowMask3DEarlier(volumeShape, windowSize, FALSE)

\* The React state that getInitialState restores from the shared URL.
SharedState == getInitialState(handleShare(ui))

\* C26: sharing round-trips the configuration. For every state of the
\* component, parsing the URL built by handleShare with getInitialState
\* gives back the same viewMode, shape, window, causal flags and
\* selectedToken (0 and null included). A shape with a missing element
\* refutes it: ?mode=video&shape=0 followed by an edit of the third shape
\* input gives [0, <missing>, 1], shared as "0,,1" and read back as
\* [0, 0, 1].
C26_ShareRoundTrip ==
  ui.mounted =>
    /\ SharedState.viewMode = ui.viewMode
    /\ SharedState.selectedToken = ui.selectedToken
    /\ actualVolumeShape(SharedState.shape) = actualVolumeShape(ui.shape)
    /\ actualWindowSize(SharedState.windowSize) =
         actualWindowSize(ui.windowSize)
    /\ actualCausal(SharedState.causal) = actualCausal(ui.causal)

\* Element n (from 1) of a state array, or dflt when it is missing.
Given(array, n, dflt) == IF array[n] = Missing THEN dflt ELSE array[n][1]

\* |a - b|
Distance(a, b) == IF a >= b THEN a - b ELSE b - a

\* C27: lower-dimensional configurations are embedded on the trailing
\* axes. A shape [n] becomes the volume (1, 1, n) and a shape [h, w]
\* becomes (1, h, w); window radii are padded with 0 and causal flags with
\* false on the missing leading axes. Hence with a shape [n], a window [r]
\* and causal [false], mask[q][k] is true iff |q - k| <= r, for all q, k
\* in [0, n).
C27_TrailingAxesEmbedding ==
  ui.mounted =>
    /\ Len(ui.shape) = 1 =>
         volumeShape = [frames |-> 1, height |-> 1,
                        width |-> Given(ui.shape, 1, 1)]
    /\ Len(ui.shape) = 2 =>
         volumeShape = [frames |-> 1, height |-> Given(ui.shape, 1, 1),
                        width |-> Given(ui.shape, 2, 1)]
    /\ Len(ui.windowSize) = 1 =>
         windowSize = [frame |-> 0, height |-> 0,
                       width |-> Given(ui.windowSize, 1, 0)]
    /\ Len(ui.windowSize) = 2 =>
         windowSize = [frame |-> 0, height |-> Given(ui.windowSize, 1, 0),
                       width |-> Given(ui.windowSize, 2, 0)]
    /\ Len(ui.causal) = 1 =>
         causal = [frame |-> FALSE, height |-> FALSE,
                   width |-> Given(ui.causal, 1, FALSE)]
    /\ Len(ui.causal) = 2 =>
         causal = [frame |-> FALSE, height |-> Given(ui.causal, 1, FALSE),
                   width |-> Given(ui.causal, 2, FALSE)]
    /\ (/\ Len(ui.shape) = 1 /\ Len(ui.windowSize) = 1
        /\ ui.causal = Array(<<FALSE>>)) =>
         \A q \in IndicesBelow(Given(ui.shape, 1, 1)) :
           LET row == attentionMaskRow(q, volumeShape, windowSize, causal)
           IN  \A k \in IndicesBelow(Given(ui.shape, 1, 1)) :
                 row[k] <=> Distance(q, k) <= Given(ui.windowSize, 1, 0)

C27_Witness ==
  /\ ui.mounted
  /\ ui.viewMode = "1D Sequence"
  /\ ui.shape = Array(<<16>>)
  /\ ui.windowSize = Array(<<2>>)
  /\ ui.causal = Array(<<FALSE>>)
  /\ volumeShape = [frames |-> 1, height |-> 1, width |-> 16]
  /\ ui.selectedToken = Some(1)
  /\ ui.attendableTokens = {0, 1, 2, 3}

\* Radius a is at most radius b on every axis.
RadiusAtMost(a, b) ==
  a.frame <= b.frame /\ a.height <= b.height /\ a.width <= b.width

\* The radii that are at most the current one on every axis.
SmallerRadii ==
  [frame : 0..windowSize.frame, height : 0..windowSize.height,
   width : 0..windowSize.width]

\* C28: the mask is monotone in the radius. For a fixed valid shape and
\* fixed causal flags, if radius r' is at least radius r on every axis,
\* every entry that is true in the mask for r is also true in the mask for
\* r': enlarging a radius never removes visibility.
C28_MonotoneInRadius ==
  pc = "returned" =>
    \A radius \in SmallerRadii :
      /\ RadiusAtMost(radius, windowSize)
      /\ \A q \in Tokens :
           LET row == attentionMaskRow(q, volumeShape, radius, causal)
           IN  \A k \in Tokens : row[k] => mask[q][k]

C28_Witness ==
  /\ pc = "returned"
  /\ windowSize = [frame |-> 1, height |-> 1, width |-> 2]
  /\ volumeShape.frames > 1 /\ volumeShape.height > 1 /\ volumeShape.width > 2
  /\ \E radius \in SmallerRadii, k \in Tokens :
       /\ radius # windowSize
       /\ mask[0][k]
       /\ ~attentionMaskRow(0, volumeShape, radius, causal)[k]

====
